---- MODULE Spec2Model ----
(***************************************************************************)
(* Model of EventsService (src/unnamed/part_000): an RxJS pipeline         *)
(*   eventsSubject -> tap -> bufferWhen(race[delay, bufferCount, flush])   *)
(*                 -> tap -> switchMap(sink)                               *)
(* The RxJS operators are modelled by what they do: Subject.next walks a   *)
(* snapshot of the observer list in subscription order, bufferWhen         *)
(* subscribes its first closing notifier before it subscribes to its       *)
(* source and appends every later closing notifier at the end of the       *)
(* observer list, delay() schedules one timer per observed event,          *)
(* bufferCount() emits when its own buffer is full, switchMap unsubscribes *)
(* the previous inner observable (whose setTimeout still runs).            *)
(*                                                                         *)
(* Time is kept relative: a timer is the time left until it expires and   *)
(* the last event's timestamp is the time elapsed since it (saturated      *)
(* above every delay).  The defaults 5000 ms / 100 events and the          *)
(* 200..500 ms sink latency are scaled into the small sets below.          *)
(*                                                                         *)
(* DataService (src/src/services/data.service.ts) is the first subscriber  *)
(* of bufferedEvents$; its effect() copies the service's counters when the *)
(* running task has ended, never inside the signal write.                  *)
(***************************************************************************)
EXTENDS Integers, Sequences, FiniteSets

\* ---- bounds ----
MaxSends == 3
MaxDelay == 2
MaxBatchSize == 3
MaxLatency == 1
MaxSubscribers == 2

\* the values explored for a delay, a count threshold and a sink latency: the
\* smallest one and the bound
Delays == {1, MaxDelay}
BatchSizes == {1, MaxBatchSize}
Latencies == {1, MaxLatency}
\* the optional fields of configure's argument; Undefined is an absent field
Undefined == -1
\* Date.now() - lastEventTimestamp is tracked up to this value
MaxElapsed == MaxDelay + 1
ConfigDelays == Delays \cup {Undefined}
ConfigBatchSizes == BatchSizes \cup {Undefined}
\* values configure() is given by mistake: a negative delay, a batch size of 0
InvalidDelays == {-2}
InvalidBatchSizes == {0}

VARIABLES
    DELAY,                    \* EventsService.DELAY
    EVENTS_COUNT_BEFORE_SEND, \* EventsService.EVENTS_COUNT_BEFORE_SEND
    observers,                \* eventsSubject's observer list, in subscription order
    cycle,                    \* index of the open closing notifier (one per bufferWhen cycle)
    closingDelay,             \* the delay() argument read by the open cycle's closing selector
    closingCount,             \* the bufferCount() argument read by the open cycle's closing selector
    delayTimers,              \* time left on the open cycle's delay() timers
    countBuffer,              \* the open cycle's bufferCount() buffer
    buffer,                   \* bufferWhen's accumulation buffer
    currentBuffer,            \* EventsService.currentBuffer
    bufferSize,               \* last value of bufferSizeSubject
    bufferedEvents,           \* batches emitted on bufferedEvents$, in order
    totalEventsProcessed,
    totalBatchesSent,
    isProcessingBatch,
    elapsed,                  \* Date.now() - lastEventTimestamp
    sinkTimeouts,             \* pending setTimeout callbacks of the simulated sink
    dataTotalBatchesSent,     \* DataService.totalBatchesSent
    averageBatchSize,         \* DataService.averageBatchSize, in tenths
    received,                 \* per subscriber of bufferedEvents$: what its handler was called with
    joinedAt,                 \* history: per subscriber, the batches emitted before it subscribed
    queuedEvents,             \* DataService.queuedEvents
    timerSubscription,        \* DataService.timerSubscription is still subscribed
    sent,                     \* history: events passed to send, in order
    releases,                 \* history: one record per bufferWhen emission
    op                        \* history: the last operation performed

vars == <<DELAY, EVENTS_COUNT_BEFORE_SEND, observers, cycle, closingDelay,
          closingCount, delayTimers, countBuffer, buffer, currentBuffer,
          bufferSize, bufferedEvents, totalEventsProcessed, totalBatchesSent,
          isProcessingBatch, elapsed, sinkTimeouts, dataTotalBatchesSent,
          averageBatchSize, received, joinedAt, queuedEvents,
          timerSubscription, sent, releases, op>>

\* ---- helpers ----
RECURSIVE Flatten(_)
Flatten(ss) == IF ss = <<>> THEN <<>> ELSE Head(ss) \o Flatten(Tail(ss))

RECURSIVE SumLen(_)
SumLen(ss) == IF ss = <<>> THEN 0 ELSE Len(Head(ss)) + SumLen(Tail(ss))

Range(q) == {q[i] : i \in 1..Len(q)}

\* ---- the service state as one record, so that a handler's sequential
\* ---- steps compose as functions
State ==
    [DELAY |-> DELAY, EVENTS_COUNT_BEFORE_SEND |-> EVENTS_COUNT_BEFORE_SEND,
     observers |-> observers, cycle |-> cycle, closingDelay |-> closingDelay,
     closingCount |-> closingCount, delayTimers |-> delayTimers,
     countBuffer |-> countBuffer, buffer |-> buffer,
     currentBuffer |-> currentBuffer, bufferSize |-> bufferSize,
     bufferedEvents |-> bufferedEvents,
     totalEventsProcessed |-> totalEventsProcessed,
     totalBatchesSent |-> totalBatchesSent,
     isProcessingBatch |-> isProcessingBatch,
     elapsed |-> elapsed,
     sinkTimeouts |-> sinkTimeouts,
     dataTotalBatchesSent |-> dataTotalBatchesSent,
     averageBatchSize |-> averageBatchSize,
     received |-> received, joinedAt |-> joinedAt,
     queuedEvents |-> queuedEvents, timerSubscription |-> timerSubscription,
     sent |-> sent, releases |-> releases]

\* DataService's effect(): runs after the task that wrote the signals
Effect(s) == [s EXCEPT !.dataTotalBatchesSent = s.totalBatchesSent]

\* the state a handler leaves behind, once the effects it scheduled have run
Commit(h) ==
    LET s == Effect(h) IN
    /\ DELAY' = s.DELAY
    /\ EVENTS_COUNT_BEFORE_SEND' = s.EVENTS_COUNT_BEFORE_SEND
    /\ observers' = s.observers
    /\ cycle' = s.cycle
    /\ closingDelay' = s.closingDelay
    /\ closingCount' = s.closingCount
    /\ delayTimers' = s.delayTimers
    /\ countBuffer' = s.countBuffer
    /\ buffer' = s.buffer
    /\ currentBuffer' = s.currentBuffer
    /\ bufferSize' = s.bufferSize
    /\ bufferedEvents' = s.bufferedEvents
    /\ totalEventsProcessed' = s.totalEventsProcessed
    /\ totalBatchesSent' = s.totalBatchesSent
    /\ isProcessingBatch' = s.isProcessingBatch
    /\ elapsed' = s.elapsed
    /\ sinkTimeouts' = s.sinkTimeouts
    /\ dataTotalBatchesSent' = s.dataTotalBatchesSent
    /\ averageBatchSize' = s.averageBatchSize
    /\ received' = s.received
    /\ joinedAt' = s.joinedAt
    /\ queuedEvents' = s.queuedEvents
    /\ timerSubscription' = s.timerSubscription
    /\ sent' = s.sent
    /\ releases' = s.releases

\* ---- pipeline stages ----

\* variant of SourceNext: the event is put in front of the buffer
SourceNextUnshift(s, e) ==
    [s EXCEPT !.currentBuffer = <<e>> \o @,
              !.elapsed = 0,
              !.bufferSize = Len(s.currentBuffer) + 1,
              !.buffer = <<e>> \o @]

\* variant of SourceNext: an event that arrives while a batch is being
\* processed is refused
SourceNextDropsWhenBusy(s, e) ==
    IF s.isProcessingBatch THEN s
    ELSE [s EXCEPT !.currentBuffer = Append(@, e),
                   !.elapsed = 0,
                   !.bufferSize = Len(s.currentBuffer) + 1,
                   !.buffer = Append(@, e)]

\* tap before bufferWhen, followed by bufferWhen's own source handler
SourceNext(s, e) ==
    [s EXCEPT !.currentBuffer = Append(@, e),
              !.elapsed = 0,
              !.bufferSize = Len(s.currentBuffer) + 1,
              !.buffer = Append(@, e)]

\* x / n rounded to the nearest integer, as Math.round does for x >= 0
RoundDiv(x, n) == (2 * x + n) \div (2 * n)

\* DataService.updateAverageBatchSize, on the average kept in tenths; it
\* reads DataService's own copy of totalBatchesSent
UpdateAverageBatchSize(s, latestBatchSize) ==
    IF s.dataTotalBatchesSent = 0 THEN s
    ELSE [s EXCEPT !.averageBatchSize =
             IF @ = 0 THEN 10 * latestBatchSize
             ELSE RoundDiv(@ * (s.dataTotalBatchesSent - 1) + 10 * latestBatchSize,
                           s.dataTotalBatchesSent)]

\* DataService's bufferedEvents$ handler
DataHandler(s, events) ==
    IF Len(events) > 0
    THEN UpdateAverageBatchSize([s EXCEPT !.queuedEvents = 0], Len(events))
    ELSE s

\* what a bufferedEvents$ handler is called with and can read at that time
Delivery(s, events) ==
    [batch |-> events, totalBatchesSent |-> s.totalBatchesSent,
     totalEventsProcessed |-> s.totalEventsProcessed]

\* variant of Notify: only the first subscriber is called
NotifyFirstOnly(s, events) ==
    DataHandler([s EXCEPT !.bufferedEvents = Append(@, events),
                          !.received[1] = Append(@, Delivery(s, events))],
                events)

\* bufferedEventsSubject.next(events): every subscriber's handler runs, in
\* subscription order, DataService's being the first
Notify(s, events) ==
    DataHandler([s EXCEPT !.bufferedEvents = Append(@, events),
                          !.received = [i \in 1..Len(s.received) |->
                              Append(s.received[i], Delivery(s, events))]],
                events)

\* variant of RecordBatch: a batch counts as one processed event
RecordBatchCountsOne(s, events) ==
    [s EXCEPT !.isProcessingBatch = TRUE,
              !.totalBatchesSent = @ + 1,
              !.totalEventsProcessed = @ + 1]

\* the metrics updates of the release tap
RecordBatch(s, events) ==
    [s EXCEPT !.isProcessingBatch = TRUE,
              !.totalBatchesSent = @ + 1,
              !.totalEventsProcessed = @ + Len(events)]

\* variant of ClearCurrentBuffer: currentBuffer is kept across the release
ClearCurrentBufferKeeps(s) == [s EXCEPT !.bufferSize = 0]

\* the buffer reset of the release tap
ClearCurrentBuffer(s) == [s EXCEPT !.currentBuffer = <<>>, !.bufferSize = 0]

\* variant of ReleaseTap: no test for an empty batch
ReleaseTapNoSkip(s, events) ==
    ClearCurrentBuffer(Notify(RecordBatch(s, events), events))

\* variant of ReleaseTap: the subscribers are notified before the metrics
\* are updated
ReleaseTapNotifyFirst(s, events) ==
    IF Len(events) > 0
    THEN ClearCurrentBuffer(RecordBatch(Notify(s, events), events))
    ELSE s

\* tap after bufferWhen: metrics, notification and buffer reset, skipped for
\* an empty batch
ReleaseTap(s, events) ==
    IF Len(events) > 0
    THEN ClearCurrentBuffer(Notify(RecordBatch(s, events), events))
    ELSE s

\* variant of SinkSwitchMap: earlier sink calls stay subscribed (mergeMap)
SinkMergeMap(s, events, lat) ==
    IF Len(events) = 0 THEN s
    ELSE [s EXCEPT !.sinkTimeouts = @ \cup
             {[left |-> lat, batch |-> s.totalBatchesSent,
               subscribed |-> TRUE]}]

\* switchMap: drops the subscription to the previous inner observable (its
\* setTimeout is not cleared, but what it passes to the closed subscriber is
\* ignored), then subscribes to EMPTY or to a new sink call
SinkSwitchMap(s, events, lat) ==
    LET superseded == {[t EXCEPT !.subscribed = FALSE, !.batch = 0] :
                           t \in s.sinkTimeouts}
    IN IF Len(events) = 0
       THEN [s EXCEPT !.sinkTimeouts = superseded]
       ELSE [s EXCEPT !.sinkTimeouts = superseded \cup
                 {[left |-> lat, batch |-> s.totalBatchesSent,
                   subscribed |-> TRUE]}]

\* the closing selector: reads DELAY and EVENTS_COUNT_BEFORE_SEND and
\* subscribes delay() and bufferCount() to eventsSubject (appended to its
\* observer list) and the race to flushSubject
ClosingSelector(s) ==
    [s EXCEPT !.cycle = @ + 1,
              !.closingDelay = s.DELAY,
              !.closingCount = s.EVENTS_COUNT_BEFORE_SEND,
              !.observers = s.observers \o
                  <<[kind |-> "delay", cycle |-> s.cycle + 1],
                    [kind |-> "bufferCount", cycle |-> s.cycle + 1]>>]

\* variant of CloseNotifier: the delay() timers of the closed cycle keep running
CloseNotifierKeepsTimers(s) ==
    [s EXCEPT !.observers = SelectSeq(s.observers, LAMBDA o : o.kind = "source"),
              !.countBuffer = <<>>]

\* unsubscribing the closing notifier: its subscriptions leave the observer
\* list, its delay() timers are cleared, its bufferCount() buffer is dropped
CloseNotifier(s) ==
    [s EXCEPT !.observers = SelectSeq(s.observers, LAMBDA o : o.kind = "source"),
              !.delayTimers = {},
              !.countBuffer = <<>>]

\* variant of TakeBuffer: the emitted buffer stays the accumulation buffer
TakeBufferNoReset(s) == s

\* openBuffer's "const b = buffer; buffer = []"
TakeBuffer(s) == [s EXCEPT !.buffer = <<>>]

\* bufferWhen's openBuffer, run on the first emission of the closing notifier
OpenBuffer(s, cause, lat) ==
    LET b == s.buffer
        s1 == TakeBuffer(CloseNotifier(s))
        s2 == [s1 EXCEPT !.releases = Append(@,
                             [cause |-> cause, batch |-> b,
                              threshold |-> s.closingCount])]
        s3 == ReleaseTap(s2, b)
        s4 == SinkSwitchMap(s3, b, lat)
    IN ClosingSelector(s4)

\* delay(closingDelay): every observed event gets its own timer (a negative
\* due time counts as 0)
DelayNext(s, e) ==
    [s EXCEPT !.delayTimers = @ \cup
         {[left |-> IF s.closingDelay < 0 THEN 0 ELSE s.closingDelay,
           value |-> e]}]

\* bufferCount(closingCount): emits once its buffer holds closingCount events
\* (a size of 0 never opens a buffer)
BufferCountNext(s, e, lat) ==
    LET cb == Append(s.countBuffer, e)
    IN IF s.closingCount < 1 THEN s
       ELSE IF Len(cb) >= s.closingCount
       THEN OpenBuffer([s EXCEPT !.countBuffer = <<>>], "count", lat)
       ELSE [s EXCEPT !.countBuffer = cb]

\* one observer of eventsSubject receives e; an unsubscribed one ignores it
ObserverNext(s, o, e, lat) ==
    IF o.kind = "source" THEN SourceNext(s, e)
    ELSE IF o.cycle # s.cycle THEN s
    ELSE IF o.kind = "delay" THEN DelayNext(s, e)
    ELSE BufferCountNext(s, e, lat)

\* Subject.next: the observers present when next() starts, in order
RECURSIVE SubjectNext(_, _, _, _, _)
SubjectNext(s, snapshot, i, e, lat) ==
    IF i > Len(snapshot) THEN s
    ELSE SubjectNext(ObserverNext(s, snapshot[i], e, lat), snapshot, i + 1, e, lat)

\* ---- initial state: the constructor has run (the first closing notifier
\* ---- is subscribed before the source).  The field initialisers 5000 and
\* ---- 100 stand for any delay and any threshold; the first closing
\* ---- selector has read them.
Init ==
    /\ DELAY \in Delays
    /\ EVENTS_COUNT_BEFORE_SEND \in BatchSizes
    /\ observers = <<[kind |-> "delay", cycle |-> 0],
                     [kind |-> "bufferCount", cycle |-> 0],
                     [kind |-> "source", cycle |-> 0]>>
    /\ cycle = 0
    /\ closingDelay = DELAY
    /\ closingCount = EVENTS_COUNT_BEFORE_SEND
    /\ delayTimers = {}
    /\ countBuffer = <<>>
    /\ buffer = <<>>
    /\ currentBuffer = <<>>
    /\ bufferSize = 0
    /\ bufferedEvents = <<>>
    /\ totalEventsProcessed = 0
    /\ totalBatchesSent = 0
    /\ isProcessingBatch = FALSE
    /\ elapsed = 0
    /\ sinkTimeouts = {}
    /\ dataTotalBatchesSent = 0
    /\ averageBatchSize = 0
    /\ received = << <<>> >>
    /\ joinedAt = <<0>>
    /\ queuedEvents = 0
    /\ timerSubscription = TRUE
    /\ sent = <<>>
    /\ releases = <<>>
    /\ op = "init"

\* ---- operations ----

\* DataService.submitEvent, the caller of send: the queue count goes up
\* once send has returned
SubmitEvent(s) == [s EXCEPT !.queuedEvents = @ + 1]

\* send(event): eventsSubject.next(event), called by DataService.submitEvent
Send ==
    /\ Len(sent) < MaxSends
    /\ \E lat \in Latencies :
         LET e == Len(sent) + 1
             s0 == [State EXCEPT !.sent = Append(@, e)]
         IN Commit(SubmitEvent(SubjectNext(s0, observers, 1, e, lat)))
    /\ op' = "send"

\* variant of FlushBuffer: a marker event is sent through eventsSubject
\* instead of a pulse on flushSubject
FlushBufferAsEvent ==
    /\ \E lat \in Latencies : Commit(SubjectNext(State, observers, 1, 0, lat))
    /\ op' = IF Len(currentBuffer) > 0 THEN "flush" ELSE "flushEmpty"

\* variant of FlushBuffer: flushSubject.next() without the emptiness guard
FlushBufferUnguarded ==
    /\ \E lat \in Latencies : Commit(OpenBuffer(State, "flush", lat))
    /\ op' = IF Len(currentBuffer) > 0 THEN "flush" ELSE "flushEmpty"

\* flushBuffer(): flushSubject.next() when currentBuffer is not empty
FlushBuffer ==
    /\ IF Len(currentBuffer) > 0
       THEN \E lat \in Latencies : Commit(OpenBuffer(State, "flush", lat))
       ELSE Commit(State)
    /\ op' = IF Len(currentBuffer) > 0 THEN "flush" ELSE "flushEmpty"

\* variant of Configured: both fields are assigned, given or not
ConfiguredOverwrites(s, d, b) ==
    [s EXCEPT !.DELAY = d, !.EVENTS_COUNT_BEFORE_SEND = b]

\* the body of configure(config): a field is assigned when it is not undefined
Configured(s, d, b) ==
    [s EXCEPT !.DELAY = IF d # Undefined THEN d ELSE @,
              !.EVENTS_COUNT_BEFORE_SEND = IF b # Undefined THEN b ELSE @]

\* variant of Configure: a threshold set to at most the pending count
\* releases the pending events at once
ConfigureReleases ==
    /\ \E d \in ConfigDelays \ {DELAY},
          b \in ConfigBatchSizes \ {EVENTS_COUNT_BEFORE_SEND},
          lat \in Latencies :
         LET s == [State EXCEPT
                      !.DELAY = IF d # Undefined THEN d ELSE @,
                      !.EVENTS_COUNT_BEFORE_SEND = IF b # Undefined THEN b ELSE @]
         IN  Commit(IF b # Undefined /\ s.buffer # <<>> /\ b <= Len(s.buffer)
                    THEN OpenBuffer(s, "count", lat)
                    ELSE s)
    /\ op' = "configure"

\* variant of Configure: the new values are applied to the open cycle too
ConfigureImmediate ==
    /\ \E d \in ConfigDelays \ {DELAY},
          b \in ConfigBatchSizes \ {EVENTS_COUNT_BEFORE_SEND} :
         Commit([State EXCEPT
             !.DELAY = IF d # Undefined THEN d ELSE @,
             !.EVENTS_COUNT_BEFORE_SEND = IF b # Undefined THEN b ELSE @,
             !.closingDelay = IF d # Undefined THEN d ELSE @,
             !.closingCount = IF b # Undefined THEN b ELSE @])
    /\ op' = "configure"

\* configure({delay?, batchSize?}); a field given the value already in force
\* acts as an omitted one, so only the other values are drawn
Configure ==
    /\ \E d \in ConfigDelays \ {DELAY},
          b \in ConfigBatchSizes \ {EVENTS_COUNT_BEFORE_SEND} :
         Commit(Configured(State, d, b))
    /\ op' = "configure"

\* configure() called with a negative delay or a batch size of 0
ConfigureInvalid ==
    /\ \E d \in InvalidDelays \cup {Undefined},
          b \in InvalidBatchSizes \cup {Undefined} :
         /\ d \in InvalidDelays \/ b \in InvalidBatchSizes
         /\ Commit([State EXCEPT
                !.DELAY = IF d # Undefined THEN d ELSE @,
                !.EVENTS_COUNT_BEFORE_SEND = IF b # Undefined THEN b ELSE @])
    /\ op' = "configureInvalid"

\* bufferedEvents$.subscribe(handler) by another consumer
Subscribe ==
    /\ Len(received) < MaxSubscribers
    /\ Commit([State EXCEPT
           !.received = Append(@, <<>>),
           !.joinedAt = Append(@, Len(bufferedEvents))])
    /\ op' = "subscribe"

\* AppComponent.ngOnDestroy: DataService.cleanup() unsubscribes the countdown
\* interval and returns nothing; the EventsService pipeline is left as it is
Cleanup ==
    /\ Commit([State EXCEPT !.timerSubscription = FALSE])
    /\ op' = "cleanup"

TimerDue == \E d \in delayTimers : d.left <= 0
SinkDue == \E t \in sinkTimeouts : t.left <= 0

\* a delay() timer of the open cycle expires: the closing notifier emits
DelayTimerFires ==
    /\ TimerDue
    /\ \E lat \in Latencies : Commit(OpenBuffer(State, "timer", lat))
    /\ op' = "timer"

\* variant of SinkTimeoutFires: the callback reports the completion and
\* leaves isProcessingBatch to the pipeline's subscriber, which never clears it
SinkTimeoutFiresReportsOnly ==
    \E t \in sinkTimeouts :
         /\ t.left <= 0
         /\ Commit([State EXCEPT !.sinkTimeouts = @ \ {t}])
         /\ op' = IF t.subscribed THEN "sinkReported" ELSE "sink"

\* the sink's setTimeout callback runs; the pipeline's subscriber is told of
\* the completion when the inner observable is still subscribed
SinkTimeoutFires ==
    \E t \in sinkTimeouts :
         /\ t.left <= 0
         /\ Commit([State EXCEPT
                !.isProcessingBatch = FALSE,
                !.sinkTimeouts = @ \ {t}])
         /\ op' = IF t.subscribed THEN "sinkReported" ELSE "sink"

\* the clock advances; expired timers run before it advances further
Tick ==
    /\ ~TimerDue /\ ~SinkDue
    /\ Commit([State EXCEPT
           !.elapsed = IF @ < MaxElapsed THEN @ + 1 ELSE @,
           !.delayTimers = {[d EXCEPT !.left = @ - 1] : d \in @},
           !.sinkTimeouts = {[t EXCEPT !.left = @ - 1] : t \in @}])
    /\ op' = "tick"

Next ==
    \/ Send
    \/ FlushBuffer
    \/ Configure
    \/ DelayTimerFires
    \/ SinkTimeoutFires
    \/ Tick

Spec == Init /\ [][Next]_vars

\* the same service, with further subscribers of bufferedEvents$ joining
NextSubscribers ==
    \/ Send
    \/ FlushBuffer
    \/ Subscribe
    \/ DelayTimerFires
    \/ SinkTimeoutFires
    \/ Tick

SubscriberSpec == Init /\ [][NextSubscribers]_vars

\* the same service and its application, which may be destroyed at any time
NextTeardown ==
    \/ Send
    \/ FlushBuffer
    \/ Cleanup
    \/ DelayTimerFires
    \/ SinkTimeoutFires
    \/ Tick

TeardownSpec == Init /\ [][NextTeardown]_vars

\* the same service, with callers that pass invalid values to configure()
NextInvalid ==
    \/ Send
    \/ FlushBuffer
    \/ ConfigureInvalid
    \/ DelayTimerFires
    \/ SinkTimeoutFires
    \/ Tick

InvalidConfigSpec == Init /\ [][NextInvalid]_vars

\* timers that are armed do fire and time does advance; calls are not forced
FairSpec ==
    /\ Init /\ [][Next]_vars
    /\ WF_vars(Tick) /\ WF_vars(DelayTimerFires) /\ WF_vars(SinkTimeoutFires)

\* the events delivered so far followed by the events still pending
Delivered == Flatten(bufferedEvents)
Accounted == Delivered \o buffer
Occurrences(q, e) == Cardinality({i \in 1..Len(q) : q[i] = e})

\* C1: every event passed to send is either pending or in exactly one
\* delivered batch, and batches hold only events that were sent
C1_NoLossNoDuplication ==
    /\ \A e \in Range(sent) : Occurrences(Accounted, e) = 1
    /\ Range(Delivered) \subseteq Range(sent)

\* a batch of two events was delivered, one release was by the count
\* condition, and an event is pending
C1_Witness ==
    /\ \E i \in 1..Len(bufferedEvents) : Len(bufferedEvents[i]) >= 2
    /\ buffer # <<>>
    /\ \E i \in 1..Len(releases) : releases[i].cause = "count"

\* C3: the delivered batches, concatenated in delivery order and followed by
\* the pending buffer, are the sequence of events sent
C3_OrderPreserved == Accounted = sent

\* two batches were delivered, the second by a timer, and an event is pending
C3_Witness ==
    /\ Len(bufferedEvents) >= 2
    /\ releases[Len(releases)].cause = "timer"
    /\ buffer # <<>>

\* the count threshold of the first cycle
FirstThreshold ==
    IF releases = <<>> THEN closingCount ELSE releases[1].threshold
OnlyCountReleases ==
    \A i \in 1..Len(releases) : releases[i].cause = "count"
LastRelease == releases[Len(releases)]

\* C2: every event passed to send is eventually delivered in a batch, with
\* no further call needed: time advancing and armed timers firing suffice
C2_EventuallyDelivered ==
    \A e \in 1..MaxSends : (e \in Range(sent)) ~> (e \in Range(Delivered))

\* C4: on a new service with count threshold N, without flush and without a
\* timer release, sending exactly N events delivers exactly one batch, which
\* holds all N events
C4_CountExactness ==
    (Len(sent) = FirstThreshold /\ OnlyCountReleases)
        => bufferedEvents = <<sent>>

\* C5: between calls the number of pending events is below the count
\* threshold of the open cycle, and no released batch is larger than the
\* threshold of its cycle
C5_PendingBelowThreshold ==
    /\ Len(buffer) < closingCount
    /\ \A i \in 1..Len(releases) :
           Len(releases[i].batch) <= releases[i].threshold

\* C6: a release by the timer happens only when at least the cycle's delay
\* has elapsed since the most recent send
C6_Debounce == [][op' = "timer" => elapsed >= closingDelay]_vars

\* C7: flushBuffer() with k >= 1 pending events delivers exactly one batch,
\* made of those k events in order, and leaves nothing pending
C7_FlushReleasesPending ==
    [][op' = "flush" =>
          /\ currentBuffer # <<>>
          /\ bufferedEvents' = Append(bufferedEvents, currentBuffer)
          /\ currentBuffer' = <<>>
          /\ buffer' = <<>>]_vars

\* a flush released two events while a timer was armed and the count
\* condition had made progress
C7_Witness ==
    /\ op = "flush"
    /\ Len(LastRelease.batch) >= 2
    /\ LastRelease.threshold > Len(LastRelease.batch)

\* C8: flushBuffer() on an empty buffer delivers nothing and leaves the
\* metrics, the sink submission in flight and the open cycle untouched
C8_EmptyFlushIsNoOp ==
    [][op' = "flushEmpty" =>
          UNCHANGED <<bufferedEvents, totalBatchesSent, totalEventsProcessed,
                      isProcessingBatch, sinkTimeouts, delayTimers,
                      countBuffer, buffer, currentBuffer, bufferSize,
                      observers, cycle, closingDelay, closingCount,
                      releases>>]_vars

\* flushBuffer() was called on an empty buffer while a sink submission was
\* in flight
C8_Witness ==
    /\ op = "flushEmpty"
    /\ \E t \in sinkTimeouts : t.subscribed

ZeroRelease ==
    /\ Len(releases') = Len(releases) + 1
    /\ releases'[Len(releases')].batch = <<>>

\* C9: no empty batch is delivered, and a release of zero events leaves the
\* metrics unchanged
C9_NoEmptyBatch ==
    [][/\ \A i \in 1..Len(bufferedEvents') : bufferedEvents'[i] # <<>>
       /\ ZeroRelease =>
              UNCHANGED <<bufferedEvents, totalBatchesSent,
                          totalEventsProcessed, isProcessingBatch>>]_vars

\* a release of zero events has happened, and later a batch was delivered
C9_Witness ==
    /\ \E i \in 1..Len(releases) : releases[i].batch = <<>>
    /\ bufferedEvents # <<>>

\* C10: the timers and the counter of a closed cycle are gone: every armed
\* timer was started by an event that is still pending, the counter holds
\* only pending events, and only the open cycle's conditions are subscribed
C10_ClosedCycleInert ==
    /\ \A t \in delayTimers : t.value \in Range(buffer)
    /\ Range(countBuffer) \subseteq Range(buffer)
    /\ \A i \in 1..Len(observers) :
           observers[i].kind # "source" => observers[i].cycle = cycle

\* a cycle whose timer was armed was closed by count or flush, and the next
\* cycle has its own timer armed
C10_Witness ==
    /\ releases # <<>>
    /\ LastRelease.cause \in {"count", "flush"}
    /\ LastRelease.batch # <<>>
    /\ delayTimers # {}

\* C11: configure() leaves the open cycle alone: its armed timers, its count
\* and the delay and threshold it closes by stay as they are, and every timer
\* armed in the cycle is due within the cycle's delay; the delay and threshold
\* of a cycle change only when a release opens the next cycle, which takes the
\* values configured at that moment.
C11_ConfigureAppliesToNextCycle ==
    [][/\ op' = "configure" =>
            UNCHANGED <<delayTimers, countBuffer, closingDelay, closingCount,
                        cycle, observers>>
       /\ cycle' = cycle => UNCHANGED <<closingDelay, closingCount>>
       /\ cycle' # cycle =>
            /\ closingDelay' = DELAY'
            /\ closingCount' = EVENTS_COUNT_BEFORE_SEND'
       /\ \A d \in delayTimers' : d.left <= closingDelay']_vars

\* C11 witness: configure() was called while a timer of the open cycle is
\* armed, and the cycle keeps a delay and a threshold other than the
\* configured ones
C11_Witness ==
    /\ op = "configure"
    /\ delayTimers # {}
    /\ closingDelay # DELAY
    /\ closingCount # EVENTS_COUNT_BEFORE_SEND

\* C12: as long as no event has been sent, the cycle that will release the
\* first batch closes by the configured delay and threshold, so a configure()
\* call made before the first event governs the first batch.
C12_ConfigureBeforeFirstEvent ==
    sent = <<>> =>
        /\ closingDelay = DELAY
        /\ closingCount = EVENTS_COUNT_BEFORE_SEND

\* a configure() call that lowers the count threshold to at most the number
\* of pending events
LoweredToPending ==
    /\ op' = "configure"
    /\ EVENTS_COUNT_BEFORE_SEND' < EVENTS_COUNT_BEFORE_SEND
    /\ buffer # <<>>
    /\ EVENTS_COUNT_BEFORE_SEND' <= Len(buffer)

\* C13: a configure() call that lowers the count threshold to at most the
\* number of pending events releases the pending events as a batch inside the
\* call.
C13_LoweredThresholdReleases ==
    [][LoweredToPending =>
          /\ bufferedEvents' = Append(bufferedEvents, buffer)
          /\ buffer' = <<>>]_vars

\* C13, amended: a configure() call that lowers the count threshold to at
\* most the number of pending events releases nothing: the pending events stay
\* buffered, no batch is delivered, and the open cycle keeps the threshold it
\* was opened with; the new threshold applies from the next cycle on.
C13_LoweredThresholdWaits ==
    [][LoweredToPending =>
          UNCHANGED <<bufferedEvents, buffer, currentBuffer, cycle,
                      closingCount, delayTimers, sinkTimeouts>>]_vars

\* C13 witness: configure() has just set a threshold no larger than the
\* pending count, below the open cycle's, and the events are still pending
C13_Witness ==
    /\ op = "configure"
    /\ buffer # <<>>
    /\ EVENTS_COUNT_BEFORE_SEND <= Len(buffer)
    /\ EVENTS_COUNT_BEFORE_SEND < closingCount

\* C14: configure() rejects a batch size of 0 and a negative delay: the call
\* leaves the delay and the threshold in force as they were.
C14_InvalidConfigRejected ==
    [][op' = "configureInvalid" =>
          UNCHANGED <<DELAY, EVENTS_COUNT_BEFORE_SEND>>]_vars

\* C15: totalBatchesSent is the number of batches delivered to
\* bufferedEvents$ and totalEventsProcessed the sum of their sizes, whatever
\* the sink submissions have done, and neither counter ever decreases.
C15_MetricsCountDeliveredBatches ==
    /\ [](/\ totalBatchesSent = Len(bufferedEvents)
          /\ totalEventsProcessed = SumLen(bufferedEvents))
    /\ [][/\ totalBatchesSent' >= totalBatchesSent
          /\ totalEventsProcessed' >= totalEventsProcessed]_vars

\* C15 witness: two batches delivered, three events in all, the first
\* submission superseded and the second still in flight
C15_Witness ==
    /\ totalBatchesSent = 2
    /\ totalEventsProcessed = 3
    /\ \E t \in sinkTimeouts : ~t.subscribed
    /\ \E t \in sinkTimeouts : t.subscribed

\* C16: once a batch has been delivered, DataService.averageBatchSize is the
\* arithmetic mean of the sizes of all delivered batches, to within the
\* one-decimal rounding (the average is kept in tenths); after the first batch
\* it is that batch's size.
C16_AverageIsMean ==
    LET n == Len(bufferedEvents)
        sum == SumLen(bufferedEvents)
    IN  n >= 1 =>
          /\ averageBatchSize * n - 10 * sum <= n
          /\ 10 * sum - averageBatchSize * n <= n
          /\ n = 1 => averageBatchSize = 10 * sum

\* C17: when a bufferedEvents$ handler is called with the k-th batch, the
\* totalBatchesSent it can read is already k and the totalEventsProcessed it
\* can read already includes that batch.
C17_MetricsBeforeNotification ==
    \A i \in 1..Len(received) : \A j \in 1..Len(received[i]) :
        LET k == joinedAt[i] + j
        IN  /\ received[i][j].batch = bufferedEvents[k]
            /\ received[i][j].totalBatchesSent = k
            /\ received[i][j].totalEventsProcessed =
                   SumLen(SubSeq(bufferedEvents, 1, k))

\* C17 witness: a handler has been called with a second batch, after a first
\* batch of more than one event
C17_Witness ==
    /\ Len(received[1]) >= 2
    /\ Len(received[1][1].batch) >= 2
    /\ received[1][2].totalEventsProcessed = 3

\* the sink callback that runs in this step
SinkFired(t) ==
    /\ t \in sinkTimeouts
    /\ t.left <= 0
    /\ sinkTimeouts' = sinkTimeouts \ {t}

\* C18: the sink is latest-wins. At most one submission is subscribed, and
\* it is that of the latest batch: a release supersedes every earlier
\* submission. A completion is reported to the pipeline's subscriber exactly
\* when the submission that completes is that of the latest batch, never for
\* a superseded one. A flush releases at once also while a submission is in
\* flight.
C18_SinkLatestWins ==
    /\ [](/\ \A t \in sinkTimeouts : t.subscribed => t.batch = totalBatchesSent
          /\ Cardinality({t \in sinkTimeouts : t.subscribed}) <= 1)
    /\ [][/\ op' = "sinkReported" =>
                \E t \in sinkTimeouts :
                    SinkFired(t) /\ t.subscribed /\ t.batch = totalBatchesSent
          /\ op' = "sink" =>
                \E t \in sinkTimeouts :
                    SinkFired(t) /\ ~t.subscribed /\ t.batch # totalBatchesSent
          /\ totalBatchesSent' # totalBatchesSent =>
                \A t \in sinkTimeouts' :
                    t.subscribed <=> t.batch = totalBatchesSent'
          /\ (op' = "flush" /\ sinkTimeouts # {}) =>
                totalBatchesSent' = totalBatchesSent + 1]_vars

\* C18 witness: the callback of a superseded submission has just run
\* unreported while the submission of the second batch is in flight
C18_Witness ==
    /\ op = "sink"
    /\ totalBatchesSent = 2
    /\ \E t \in sinkTimeouts : t.subscribed

\* EventsService.getTimeUntilNextBatch(), elapsed being the time since
\* lastEventTimestamp
GetTimeUntilNextBatch ==
    IF DELAY - elapsed > 0 THEN DELAY - elapsed ELSE 0

\* C19: getTimeUntilNextBatch() returns max(0, delay - time since the last
\* event) for the delay of the open cycle, a value between 0 and that delay,
\* and the full delay whenever nothing is pending and no timer is armed.
C19_TimeUntilNextBatch ==
    /\ GetTimeUntilNextBatch =
           IF closingDelay - elapsed > 0 THEN closingDelay - elapsed ELSE 0
    /\ GetTimeUntilNextBatch \in 0..closingDelay
    /\ (buffer = <<>> /\ delayTimers = {}) => GetTimeUntilNextBatch = closingDelay

\* the batches a subscriber's handler has been called with, in call order
Batches(i) == [j \in 1..Len(received[i]) |-> received[i][j].batch]

\* C20: between any two steps, every subscriber of bufferedEvents$ has been
\* handed exactly the batches emitted since it subscribed, each once and in
\* the order of emission, so a batch has reached all subscribers before the
\* next release is processed.
C20_MulticastToSubscribers ==
    \A i \in 1..Len(received) :
        Batches(i) = SubSeq(bufferedEvents, joinedAt[i] + 1, Len(bufferedEvents))

\* C20 witness: a second subscriber joined after the first batch and a later
\* batch has been delivered to both
C20_Witness ==
    /\ Len(received) = 2
    /\ joinedAt[2] = 1
    /\ Len(received[1]) = 2
    /\ Len(received[2]) = 1

\* C21: when the application is torn down, no sent event is left behind
\* unreleased: the events pending at cleanup are handed over (the only way
\* the code has to surface an event is a batch on bufferedEvents$).
C21_TeardownDrainsPending ==
    [][op' = "cleanup" =>
          /\ buffer' = <<>>
          /\ Flatten(bufferedEvents') = sent']_vars

\* C22: between calls, whenever events are pending, a delay() timer of the
\* open cycle is armed for one of them, so a timer release is scheduled.
C22_PendingHasTimer ==
    buffer # <<>> => \E d \in delayTimers : d.value \in Range(buffer)

\* C23: between calls, currentBuffer holds exactly the events of bufferWhen's
\* accumulation buffer, and getCurrentBufferSize() and the last value of
\* bufferSize$ are the number of events the next release would deliver; so
\* flushBuffer's emptiness guard passes exactly when there is something to
\* release.
C23_CurrentBufferMirrors ==
    /\ currentBuffer = buffer
    /\ bufferSize = Len(buffer)

\* C23 witness: the first cycle was closed by count with a non-empty batch
\* and the event that reached the threshold is pending in both buffers
C23_Witness ==
    /\ Len(releases) = 1
    /\ releases[1].cause = "count"
    /\ releases[1].batch # <<>>
    /\ Len(currentBuffer) = 1
    /\ Len(buffer) = 1

\* C24: configure() overwrites only the fields it is given: with delay alone
\* the threshold stays, with batchSize alone the delay stays, and a given
\* field takes the given value. A configure() call delivers no batch and
\* changes neither the buffers nor totalBatchesSent, totalEventsProcessed or
\* isProcessingBatch.
C24_ConfigureFrame ==
    /\ [](\A d \in ConfigDelays, b \in ConfigBatchSizes :
            LET s == Configured(State, d, b)
            IN  /\ s.DELAY = IF d = Undefined THEN DELAY ELSE d
                /\ s.EVENTS_COUNT_BEFORE_SEND =
                       IF b = Undefined THEN EVENTS_COUNT_BEFORE_SEND ELSE b)
    /\ [][op' = "configure" =>
            /\ UNCHANGED <<buffer, currentBuffer, bufferSize, bufferedEvents,
                           received, totalBatchesSent, totalEventsProcessed,
                           isProcessingBatch, sinkTimeouts>>
            /\ DELAY' \in Delays
            /\ EVENTS_COUNT_BEFORE_SEND' \in BatchSizes]_vars

\* C24 witness: configure() has just changed the delay alone, with events
\* pending and a sink submission in flight
C24_Witness ==
    /\ op = "configure"
    /\ buffer # <<>>
    /\ isProcessingBatch
    /\ DELAY # closingDelay
    /\ EVENTS_COUNT_BEFORE_SEND = closingCount

\* C25: while the sink call of the latest batch is in flight (its own delay
\* has not elapsed), isProcessingBatch is true, whatever happened to earlier
\* calls.
C25_ProcessingWhileInFlight ==
    \A t \in sinkTimeouts :
        (t.subscribed /\ t.left > 0) => isProcessingBatch

\* C26: once every sink callback has run, isProcessingBatch is false: the
\* flag is true only while some callback, of the latest call or of a
\* superseded one, is still to run, also after superseded calls and after
\* releases of zero events.
C26_ProcessingNotStuck ==
    isProcessingBatch => sinkTimeouts # {}

\* C26 witness: two batches were released, the callback of the superseded
\* call ran last, no callback is left and the flag is down
C26_Witness ==
    /\ op = "sink"
    /\ totalBatchesSent = 2
    /\ sinkTimeouts = {}
    /\ ~isProcessingBatch

\* C27: between calls, the queue count DataService shows is the number of
\* events the service holds: queuedEvents = getCurrentBufferSize().
C27_QueueCountMatches ==
    queuedEvents = Len(currentBuffer)

\* C28: whatever is pending or in flight, a send() call returns with the
\* event in the pending buffer or in the batch released during the call; no
\* sink callback has to run for it, and the sink calls in flight are still
\* waiting afterwards.
C28_SendAlwaysAdmitted ==
    [][op' = "send" =>
            LET e == Len(sent) + 1
                n == Len(bufferedEvents')
            IN  /\ sent' = Append(sent, e)
                /\ n <= Len(bufferedEvents) + 1
                /\ \/ e \in Range(buffer')
                   \/ /\ n = Len(bufferedEvents) + 1
                      /\ e \in Range(bufferedEvents'[n])
                /\ \A t \in sinkTimeouts :
                       \E u \in sinkTimeouts' : u.left = t.left]_vars

\* C28 witness: a send has just been admitted to a buffer that already held
\* events, while a sink call was in flight
C28_Witness ==
    /\ op = "send"
    /\ Len(buffer) >= 2
    /\ isProcessingBatch
    /\ \E t \in sinkTimeouts : t.subscribed

TypeOK ==
    /\ DELAY \in Delays
    /\ EVENTS_COUNT_BEFORE_SEND \in BatchSizes
    /\ Len(sent) <= MaxSends
    /\ elapsed \in 0..MaxElapsed
====
